---- MODULE Spec2Model ----
(***************************************************************************)
(* Model of youtrack_sdk.client.Client: the transport layer                *)
(* (_send_request, _get, _post, _delete) and every public operation built  *)
(* on it.  One action per public operation; the server's answer (status,   *)
(* body, or a transport failure) is the environment's choice.              *)
(***************************************************************************)
EXTENDS Integers, Sequences, FiniteSets, TLC

VARIABLES token, base_url, session_headers, nCalls, nRequests, last

vars == <<token, base_url, session_headers, nCalls, nRequests, last>>

(* Number of public calls made on one client in a behaviour. *)
MaxCalls == 2

(***************************************************************************)
(* Optional values: None, or a value v written Some(v).                    *)
(***************************************************************************)
None == <<>>
Some(v) == <<v>>
IsNone(o) == Len(o) = 0

(* {key: value for key, value in {...}.items() if value is not None} *)
NotNone(d) == [k \in {x \in DOMAIN d : ~IsNone(d[x])} |-> d[k][1]]

(* params=None of _delete: no query parameters at all *)
NoParams == [k \in {} |-> ""]

(***************************************************************************)
(* Inputs                                                                  *)
(***************************************************************************)
Tokens == {"tok-A", "tok-B"}
BaseUrls == {"https://yt"}
IssueIds == {"ISS-1"}
CommentIds == {"c-1", "c-2"}
Offsets == {0, 10}
Counts == {-1, 5}
Queries == {"project: X"}
Statuses == {101, 200, 201, 302, 401, 404, 500}
Bodies == {"", "[]", "{}", "<html>"}

(* What the session gives back: a response, or an exception of the         *)
(* transport (requests.ConnectionError) when no response arrives.          *)
Response(status, content) == [raises |-> "", status_code |-> status, content |-> content]
TransportFailure == [raises |-> "ConnectionError", status_code |-> 0, content |-> ""]
Responses == {Response(s, b) : s \in Statuses, b \in Bodies} \cup {TransportFailure}

(***************************************************************************)
(* Values and outcomes                                                     *)
(***************************************************************************)
Value(kind, of, src) == [kind |-> kind, of |-> of, src |-> src]
NoneValue == Value("None", "", "")

Return(v) == [kind |-> "return", exc |-> "", msg |-> <<>>, value |-> v]
Raise(exc, msg) == [kind |-> "raise", exc |-> exc, msg |-> msg, value |-> NoneValue]

(***************************************************************************)
(* Entities and helpers                                                    *)
(***************************************************************************)
Entity(type, fields) == [type |-> type, fields |-> fields]

(* IssueComment(id=comment_id, deleted=True): only id and deleted are set *)
IssueComment_hidden(comment_id) == Entity("IssueComment", [id |-> comment_id, deleted |-> TRUE])

model_to_field_names(type) == "fields-of-" \o type

(* the JSON text of an entity: its set fields, unset ones omitted *)
obj_to_json(obj) == [json |-> obj.fields, of |-> obj.type]

(* json.loads on the bodies of the model *)
json_loads(content) ==
  CASE content = "[]" -> Return(Value("list", "json", content))
    [] content = "{}" -> Return(Value("dict", "json", content))
    [] OTHER -> Raise("JSONDecodeError", <<>>)

(* a status check that lets server errors through *)
raise_for_status_4xx_only(status_code) == status_code >= 400 /\ status_code < 500

(* requests.Response.raise_for_status: HTTPError for 4xx and 5xx *)
raise_for_status(status_code) == status_code >= 400 /\ status_code < 600

(* pydantic: parse_obj_as(tuple[T, ...], result) *)
parse_obj_as_tuple(type, result) ==
  IF result.kind = "list"
    THEN Return(Value("tuple", type, result.src))
    ELSE Raise("ValidationError", <<>>)

(* pydantic: T.parse_obj(result); a value that is not a dict goes through *)
(* dict(), which turns the empty list into the empty dict and fails on None *)
parse_obj(type, result) ==
  IF result.kind = "dict" \/ (result.kind = "list" /\ result.src = "[]")
    THEN Return(Value("entity", type, "{}"))
    ELSE Raise("ValidationError", <<>>)

(* pydantic: parse_obj_as(T, result) for the union of custom field types *)
parse_obj_as(type, result) ==
  IF result.kind = "dict"
    THEN Return(Value("entity", type, result.src))
    ELSE Raise("ValidationError", <<>>)

(***************************************************************************)
(* Transport layer                                                         *)
(***************************************************************************)
Self == [base_url |-> base_url, session_headers |-> session_headers]

(* a request that stores its headers on the session *)
Session_request_update(self, method, url, params, data, files, headers) ==
  LET merged == IF IsNone(headers) THEN self.session_headers
                ELSE headers[1] @@ self.session_headers
  IN  [request |-> [method |-> method, url |-> url, params |-> params, data |-> data,
                    files |-> files, headers |-> merged],
       session_headers |-> merged]

(* requests.Session.request: the per-request headers are merged over the   *)
(* session's default headers for this request only.                        *)
Session_request(self, method, url, params, data, files, headers) ==
  [request |-> [method |-> method, url |-> url, params |-> params, data |-> data,
                files |-> files,
                headers |-> IF IsNone(headers) THEN self.session_headers
                            ELSE headers[1] @@ self.session_headers],
   session_headers |-> self.session_headers]

(* a status check without the 404 branch *)
check_status_no_404(method, path, status) ==
  IF status = 401 THEN Raise("YouTrackUnauthorized", <<>>)
  ELSE IF raise_for_status(status)
    THEN Raise("YouTrackException",
               <<"Unexpected status code for ", method, " ", path, ": ", ToString(status), ".">>)
  ELSE Return(NoneValue)

(* lines 63-73: the status of the response decides first *)
check_status(method, path, status) ==
  IF status = 404 THEN Raise("YouTrackNotFound", <<>>)
  ELSE IF status = 401 THEN Raise("YouTrackUnauthorized", <<>>)
  ELSE IF raise_for_status(status)
    THEN Raise("YouTrackException",
               <<"Unexpected status code for ", method, " ", path, ": ", ToString(status), ".">>)
  ELSE Return(NoneValue)

(* a body reader that lets the decoder's own exception escape *)
read_body_uncaught(method, path, resp) ==
  LET decoded == json_loads(resp.content)
  IN  IF Len(resp.content) = 0
        THEN [json_called |-> FALSE, result |-> Return(NoneValue)]
      ELSE [json_called |-> TRUE, result |-> decoded]

(* lines 75-85: an empty body is no content, any other body is decoded *)
read_body(method, path, resp) ==
  LET decoded == json_loads(resp.content)
  IN  IF Len(resp.content) = 0
        THEN [json_called |-> FALSE, result |-> Return(NoneValue)]
      ELSE IF decoded.kind = "raise"
        THEN [json_called |-> TRUE,
              result |-> Raise("YouTrackException",
                               <<"Failed to decode response from ", method, " ", path,
                                 ", status=", ToString(resp.status_code)>>)]
      ELSE [json_called |-> TRUE, result |-> decoded]

_send_request(self, method, path, params, data, files, resp) ==
  LET call == Session_request(self, method, self.base_url \o "/api" \o path, params,
                              IF IsNone(data) THEN None ELSE Some(obj_to_json(data[1])),
                              files,
                              IF IsNone(data) THEN None
                              ELSE Some("Content-Type" :> "application/json"))
      checked == check_status(method, path, resp.status_code)
      body == read_body(method, path, resp)
      Result(json_called, result) ==
        [sent |-> <<call.request>>, session_headers |-> call.session_headers,
         json_called |-> json_called, result |-> result]
  IN  IF resp.raises # "" THEN Result(FALSE, Raise(resp.raises, <<>>))
      ELSE IF checked.kind = "raise" THEN Result(FALSE, checked)
      ELSE Result(body.json_called, body.result)

_get(self, path, fields, query, offset, count, resp) ==
  _send_request(self, "GET", path,
                NotNone(("fields" :> fields) @@ ("query" :> query)
                        @@ ("$skip" :> offset) @@ ("$top" :> count)),
                None, None, resp)

_post(self, path, fields, offset, count, data, files, resp) ==
  _send_request(self, "POST", path,
                NotNone(("fields" :> fields) @@ ("$skip" :> offset) @@ ("$top" :> count)),
                data, files, resp)

_delete(self, path, resp) ==
  _send_request(self, "DELETE", path, NoParams, None, None, resp)

(* The end of a public operation: an exception of the transport layer      *)
(* propagates, otherwise the operation's own result stands.                *)
Done(r, outcome) ==
  [sent |-> r.sent, session_headers |-> r.session_headers, json_called |-> r.json_called,
   send |-> r.result,
   outcome |-> IF r.result.kind = "raise" THEN r.result ELSE outcome]

(***************************************************************************)
(* Public operations                                                       *)
(***************************************************************************)
get_issues(self, query, offset, count, raw, resp) ==
  LET r == _get(self, "/issues", Some(model_to_field_names("Issue")), Some(query),
                None, None, resp)
  IN  Done(r, IF raw THEN Return(r.result.value)
              ELSE parse_obj_as_tuple("Issue", r.result.value))

get_issue(self, issue_id, raw, resp) ==
  LET r == _get(self, "/issues/" \o issue_id, Some(model_to_field_names("Issue")), None,
                None, None, resp)
  IN  Done(r, IF raw THEN Return(r.result.value) ELSE parse_obj("Issue", r.result.value))

create_issue(self, issue, resp) ==
  LET r == _post(self, "/issues", Some(model_to_field_names("Issue")), None, None,
                 Some(issue), None, resp)
  IN  Done(r, parse_obj("Issue", r.result.value))

get_issue_custom_fields(self, issue_id, offset, count, resp) ==
  LET r == _get(self, "/issues/" \o issue_id \o "/customFields",
                Some(model_to_field_names("IssueCustomFieldType")), None,
                Some(offset), Some(count), resp)
  IN  Done(r, parse_obj_as_tuple("IssueCustomFieldType", r.result.value))

update_issue_custom_field(self, issue_id, field, resp) ==
  LET r == _post(self, "/issues/" \o issue_id \o "/customFields/" \o field.fields.id,
                 Some(model_to_field_names("IssueCustomFieldType")), None, None,
                 Some(field), None, resp)
  IN  Done(r, parse_obj_as("IssueCustomFieldType", r.result.value))

(* a delete that tries once more after a failure and then gives up quietly *)
delete_issue_retry(self, issue_id, resp) ==
  LET r == _delete(self, "/issues/" \o issue_id, resp)
      d == Done(r, Return(NoneValue))
  IN  IF r.result.kind = "raise"
        THEN [d EXCEPT !.sent = r.sent \o r.sent, !.outcome = Return(NoneValue)]
        ELSE d

delete_issue(self, issue_id, resp) ==
  LET r == _delete(self, "/issues/" \o issue_id, resp)
  IN  Done(r, Return(NoneValue))

get_issue_comments(self, issue_id, offset, count, resp) ==
  LET r == _get(self, "/issues/" \o issue_id \o "/comments",
                Some(model_to_field_names("IssueComment")), None,
                Some(offset), Some(count), resp)
  IN  Done(r, parse_obj_as_tuple("IssueComment", r.result.value))

create_issue_comment(self, issue_id, comment, resp) ==
  LET r == _post(self, "/issues/" \o issue_id \o "/comments",
                 Some(model_to_field_names("IssueComment")), None, None,
                 Some(comment), None, resp)
  IN  Done(r, parse_obj("IssueComment", r.result.value))

update_issue_comment(self, issue_id, comment, resp) ==
  LET r == _post(self, "/issues/" \o issue_id \o "/comments/" \o comment.fields.id,
                 Some(model_to_field_names("IssueComment")), None, None,
                 Some(comment), None, resp)
  IN  Done(r, parse_obj("IssueComment", r.result.value))

(* a hide that reads the comment back after the update *)
hide_issue_comment_reread(self, issue_id, comment_id, resp) ==
  LET d == update_issue_comment(self, issue_id, IssueComment_hidden(comment_id), resp)
      g == _get(self, "/issues/" \o issue_id \o "/comments/" \o comment_id,
                Some(model_to_field_names("IssueComment")), None, None, None, resp)
  IN  IF d.outcome.kind = "raise" THEN d
      ELSE [d EXCEPT !.sent = d.sent \o g.sent, !.outcome = Return(NoneValue)]

hide_issue_comment(self, issue_id, comment_id, resp) ==
  LET d == update_issue_comment(self, issue_id, IssueComment_hidden(comment_id), resp)
  IN  IF d.outcome.kind = "raise" THEN d ELSE [d EXCEPT !.outcome = Return(NoneValue)]

delete_issue_comment(self, issue_id, comment_id, resp) ==
  LET r == _delete(self, "/issues/" \o issue_id \o "/comments/" \o comment_id, resp)
  IN  Done(r, Return(NoneValue))

get_issue_attachments(self, issue_id, offset, count, resp) ==
  LET r == _get(self, "/issues/" \o issue_id \o "/attachments",
                Some(model_to_field_names("IssueAttachment")), None,
                Some(offset), Some(count), resp)
  IN  Done(r, parse_obj_as_tuple("IssueAttachment", r.result.value))

create_issue_attachments(self, issue_id, files, resp) ==
  LET r == _post(self, "/issues/" \o issue_id \o "/attachments",
                 Some(model_to_field_names("IssueAttachment")), None, None,
                 None, Some(files), resp)
  IN  Done(r, parse_obj_as_tuple("IssueAttachment", r.result.value))

(* an upload that asks for no fields *)
create_comment_attachments_no_fields(self, issue_id, comment_id, files, resp) ==
  LET r == _post(self, "/issues/" \o issue_id \o "/comments/" \o comment_id \o "/attachments",
                 None, None, None, None, Some(files), resp)
  IN  Done(r, parse_obj_as_tuple("IssueAttachment", r.result.value))

create_comment_attachments(self, issue_id, comment_id, files, resp) ==
  LET r == _post(self, "/issues/" \o issue_id \o "/comments/" \o comment_id \o "/attachments",
                 Some(model_to_field_names("IssueAttachment")), None, None,
                 None, Some(files), resp)
  IN  Done(r, parse_obj_as_tuple("IssueAttachment", r.result.value))

get_projects(self, offset, count, resp) ==
  LET r == _get(self, "/admin/projects", Some(model_to_field_names("Project")), None,
                Some(offset), Some(count), resp)
  IN  Done(r, parse_obj_as_tuple("Project", r.result.value))

get_tags(self, offset, count, resp) ==
  LET r == _get(self, "/issueTags", Some(model_to_field_names("IssueTag")), None,
                Some(offset), Some(count), resp)
  IN  Done(r, parse_obj_as_tuple("IssueTag", r.result.value))

add_issue_tag(self, issue_id, tag, resp) ==
  LET r == _post(self, "/issues/" \o issue_id \o "/tags", None, None, None,
                 Some(tag), None, resp)
  IN  Done(r, Return(NoneValue))

get_users(self, offset, count, resp) ==
  LET r == _get(self, "/users", Some(model_to_field_names("User")), None,
                Some(offset), Some(count), resp)
  IN  Done(r, parse_obj_as_tuple("User", r.result.value))

(***************************************************************************)
(* Arguments the callers pass                                              *)
(***************************************************************************)
IssuesToCreate == {Entity("Issue", [summary |-> "Bug"])}
FieldsToUpdate == {Entity("IssueCustomFieldType", [id |-> "f-1", value |-> "High"])}
CommentsToCreate == {Entity("IssueComment", [text |-> "hello"])}
CommentsToUpdate ==
  {Entity("IssueComment", [id |-> c, text |-> "edited"]) : c \in CommentIds}
    \cup {IssueComment_hidden(c) : c \in CommentIds}
TagsToAdd == {Entity("IssueTag", [id |-> "t-1"])}
FilesToUpload == {("upload" :> "stream-1")}

Args(issue_id, comment_id, offset, count, raw, data) ==
  [issue_id |-> issue_id, comment_id |-> comment_id, offset |-> offset, count |-> count,
   raw |-> raw, data |-> data]

(***************************************************************************)
(* State machine: one action per public operation                          *)
(***************************************************************************)
Call(op, args, resp, d) ==
  /\ nCalls < MaxCalls
  /\ nCalls' = nCalls + 1
  /\ nRequests' = nRequests + Len(d.sent)
  /\ session_headers' = d.session_headers
  /\ last' = [op |-> op, args |-> args, resp |-> resp, sent |-> d.sent,
              json_called |-> d.json_called, send |-> d.send, outcome |-> d.outcome]
  /\ UNCHANGED <<token, base_url>>

Get_issues ==
  \E q \in Queries, o \in Offsets, c \in Counts, raw \in BOOLEAN, resp \in Responses :
    Call("get_issues", Args(None, None, Some(o), Some(c), raw, None), resp,
         get_issues(Self, q, o, c, raw, resp))

Get_issue ==
  \E i \in IssueIds, raw \in BOOLEAN, resp \in Responses :
    Call("get_issue", Args(Some(i), None, None, None, raw, None), resp,
         get_issue(Self, i, raw, resp))

Create_issue ==
  \E issue \in IssuesToCreate, resp \in Responses :
    Call("create_issue", Args(None, None, None, None, FALSE, Some(issue)), resp,
         create_issue(Self, issue, resp))

Get_issue_custom_fields ==
  \E i \in IssueIds, o \in Offsets, c \in Counts, resp \in Responses :
    Call("get_issue_custom_fields", Args(Some(i), None, Some(o), Some(c), FALSE, None), resp,
         get_issue_custom_fields(Self, i, o, c, resp))

Update_issue_custom_field ==
  \E i \in IssueIds, field \in FieldsToUpdate, resp \in Responses :
    Call("update_issue_custom_field", Args(Some(i), None, None, None, FALSE, Some(field)), resp,
         update_issue_custom_field(Self, i, field, resp))

Delete_issue ==
  \E i \in IssueIds, resp \in Responses :
    Call("delete_issue", Args(Some(i), None, None, None, FALSE, None), resp,
         delete_issue(Self, i, resp))

Get_issue_comments ==
  \E i \in IssueIds, o \in Offsets, c \in Counts, resp \in Responses :
    Call("get_issue_comments", Args(Some(i), None, Some(o), Some(c), FALSE, None), resp,
         get_issue_comments(Self, i, o, c, resp))

Create_issue_comment ==
  \E i \in IssueIds, comment \in CommentsToCreate, resp \in Responses :
    Call("create_issue_comment", Args(Some(i), None, None, None, FALSE, Some(comment)), resp,
         create_issue_comment(Self, i, comment, resp))

Update_issue_comment ==
  \E i \in IssueIds, comment \in CommentsToUpdate, resp \in Responses :
    Call("update_issue_comment", Args(Some(i), None, None, None, FALSE, Some(comment)), resp,
         update_issue_comment(Self, i, comment, resp))

Hide_issue_comment ==
  \E i \in IssueIds, c \in CommentIds, resp \in Responses :
    Call("hide_issue_comment", Args(Some(i), Some(c), None, None, FALSE, None), resp,
         hide_issue_comment(Self, i, c, resp))

Delete_issue_comment ==
  \E i \in IssueIds, c \in CommentIds, resp \in Responses :
    Call("delete_issue_comment", Args(Some(i), Some(c), None, None, FALSE, None), resp,
         delete_issue_comment(Self, i, c, resp))

Get_issue_attachments ==
  \E i \in IssueIds, o \in Offsets, c \in Counts, resp \in Responses :
    Call("get_issue_attachments", Args(Some(i), None, Some(o), Some(c), FALSE, None), resp,
         get_issue_attachments(Self, i, o, c, resp))

Create_issue_attachments ==
  \E i \in IssueIds, files \in FilesToUpload, resp \in Responses :
    Call("create_issue_attachments", Args(Some(i), None, None, None, FALSE, None), resp,
         create_issue_attachments(Self, i, files, resp))

Create_comment_attachments ==
  \E i \in IssueIds, c \in CommentIds, files \in FilesToUpload, resp \in Responses :
    Call("create_comment_attachments", Args(Some(i), Some(c), None, None, FALSE, None), resp,
         create_comment_attachments(Self, i, c, files, resp))

Get_projects ==
  \E o \in Offsets, c \in Counts, resp \in Responses :
    Call("get_projects", Args(None, None, Some(o), Some(c), FALSE, None), resp,
         get_projects(Self, o, c, resp))

Get_tags ==
  \E o \in Offsets, c \in Counts, resp \in Responses :
    Call("get_tags", Args(None, None, Some(o), Some(c), FALSE, None), resp,
         get_tags(Self, o, c, resp))

Add_issue_tag ==
  \E i \in IssueIds, tag \in TagsToAdd, resp \in Responses :
    Call("add_issue_tag", Args(Some(i), None, None, None, FALSE, Some(tag)), resp,
         add_issue_tag(Self, i, tag, resp))

Get_users ==
  \E o \in Offsets, c \in Counts, resp \in Responses :
    Call("get_users", Args(None, None, Some(o), Some(c), FALSE, None), resp,
         get_users(Self, o, c, resp))

Init ==
  /\ token \in Tokens
  /\ base_url \in BaseUrls
  /\ session_headers = ("Authorization" :> ("Bearer " \o token))
  /\ nCalls = 0
  /\ nRequests = 0
  /\ last = [op |-> "__init__"]

Next ==
  \/ Get_issues
  \/ Get_issue
  \/ Create_issue
  \/ Get_issue_custom_fields
  \/ Update_issue_custom_field
  \/ Delete_issue
  \/ Get_issue_comments
  \/ Create_issue_comment
  \/ Update_issue_comment
  \/ Hide_issue_comment
  \/ Delete_issue_comment
  \/ Get_issue_attachments
  \/ Create_issue_attachments
  \/ Create_comment_attachments
  \/ Get_projects
  \/ Get_tags
  \/ Add_issue_tag
  \/ Get_users

Spec == Init /\ [][Next]_vars
(***************************************************************************)
(* Properties                                                              *)
(***************************************************************************)
Called == last.op # "__init__"
HasResponse == Called /\ last.resp.raises = ""
Status == last.resp.status_code
Content == last.resp.content
Is2xx(status) == status >= 200 /\ status < 300
Request == last.sent[1]
Bearer == "Bearer " \o token

ListOps == {"get_issues", "get_issue_custom_fields", "get_issue_comments",
            "get_issue_attachments", "get_projects", "get_tags", "get_users"}
PureDeleteOps == {"delete_issue", "delete_issue_comment"}
Taxonomy == {"YouTrackNotFound", "YouTrackUnauthorized", "YouTrackException"}

(* offset: int = 0, count: int = -1 *)
DefaultOffset == 0
DefaultCount == -1

(* the entity type in the return annotation of each operation; the hide    *)
(* operation returns what its update call is asked to parse                *)
ReturnType(op) ==
  CASE op \in {"get_issues", "get_issue", "create_issue"} -> "Issue"
    [] op \in {"get_issue_custom_fields", "update_issue_custom_field"} -> "IssueCustomFieldType"
    [] op \in {"get_issue_comments", "create_issue_comment", "update_issue_comment",
               "hide_issue_comment"} -> "IssueComment"
    [] op \in {"get_issue_attachments", "create_issue_attachments",
               "create_comment_attachments"} -> "IssueAttachment"
    [] op = "get_projects" -> "Project"
    [] op = "get_tags" -> "IssueTag"
    [] op = "get_users" -> "User"
    [] OTHER -> ""

(* the message names the verb, the path and the status of the call *)
MessageNamesCall(msg) ==
  /\ \E i \in 1..Len(msg) : msg[i] = Request.method
  /\ \E i \in 1..Len(msg) : base_url \o "/api" \o msg[i] = Request.url
  /\ \E i \in 1..Len(msg) : msg[i] = ToString(Status)

(* C1: a 404 response raises YouTrackNotFound and a 401 response raises    *)
(* YouTrackUnauthorized in every public operation, whatever the body, and  *)
(* the body is never handed to the JSON decoder.                           *)
C1_NotFoundAndUnauthorized ==
  HasResponse =>
    /\ Status = 404 => /\ last.outcome.kind = "raise"
                       /\ last.outcome.exc = "YouTrackNotFound"
                       /\ ~last.json_called
    /\ Status = 401 => /\ last.outcome.kind = "raise"
                       /\ last.outcome.exc = "YouTrackUnauthorized"
                       /\ ~last.json_called

C1_Witness ==
  /\ HasResponse
  /\ Status = 404
  /\ Content = "<html>"
  /\ last.outcome.exc = "YouTrackNotFound"

(* C2: a GET operation answered 200 with an empty body yields the          *)
(* no-content result, and a list operation answered 200 with the body []   *)
(* yields an empty sequence.                                               *)
C2_NoContentVersusEmptyList ==
  (HasResponse /\ Request.method = "GET" /\ Status = 200) =>
    /\ Content = "" => last.outcome = Return(NoneValue)
    /\ (Content = "[]" /\ last.op \in ListOps) =>
         /\ last.outcome.kind = "return"
         /\ last.outcome.value.kind \in {"tuple", "list"}
         /\ last.outcome.value.src = "[]"

(* C3: every list operation sends $skip equal to its offset argument and   *)
(* $top equal to its count argument; a key may be missing only when the    *)
(* argument is the default.                                                *)
C3_PaginationSent ==
  (Called /\ last.op \in ListOps) =>
    LET p == Request.params
        offset == last.args.offset[1]
        count == last.args.count[1]
    IN  /\ offset # DefaultOffset => "$skip" \in DOMAIN p
        /\ count # DefaultCount => "$top" \in DOMAIN p
        /\ "$skip" \in DOMAIN p => p["$skip"] = offset
        /\ "$top" \in DOMAIN p => p["$top"] = count

(* C4: hide_issue_comment(issue_id, comment_id) sends exactly the request  *)
(* that update_issue_comment sends for the comment {id, deleted: true},    *)
(* sends nothing else, and fails with the same error on the same response. *)
C4_HideIsUpdate ==
  (Called /\ last.op = "hide_issue_comment") =>
    LET u == update_issue_comment(Self, last.args.issue_id[1],
               Entity("IssueComment", [id |-> last.args.comment_id[1], deleted |-> TRUE]),
               last.resp)
    IN  /\ last.sent = u.sent
        /\ Len(last.sent) = 1
        /\ u.outcome.kind = "raise" => last.outcome = u.outcome
        /\ u.outcome.kind = "return" => last.outcome.kind = "return"

C4_Witness ==
  /\ Called
  /\ last.op = "hide_issue_comment"
  /\ last.args.comment_id = Some("c-2")
  /\ Status = 200
  /\ Content = "{}"
  /\ Request.method = "POST"
  /\ Request.data[1].json = [id |-> "c-2", deleted |-> TRUE]
  /\ last.outcome.kind = "return"

C6_BodyDecoding ==
  (HasResponse /\ Is2xx(Status) /\ Content # "") =>
    IF json_loads(Content).kind = "raise"
      THEN /\ last.send.kind = "raise"
           /\ last.send.exc = "YouTrackException"
           /\ MessageNamesCall(last.send.msg)
      ELSE /\ last.send.kind = "return"
           /\ last.send.value = json_loads(Content).value
           /\ last.send.value.src = Content

C6_Witness ==
  /\ HasResponse
  /\ Status = 201
  /\ Content = "<html>"
  /\ last.json_called
  /\ last.send.exc = "YouTrackException"

(* C7: every failure of a public operation is YouTrackNotFound,            *)
(* YouTrackUnauthorized or YouTrackException.                              *)
C7_ErrorTaxonomy ==
  (Called /\ last.outcome.kind = "raise") => last.outcome.exc \in Taxonomy

(* C8: every call of a public operation sends exactly one request, so the  *)
(* session has sent as many requests as there were calls, and a call whose *)
(* request failed ends with that failure.                                  *)
C8_OneRequestNoRetry ==
  /\ nRequests = nCalls
  /\ Called => /\ Len(last.sent) = 1
               /\ last.send.kind = "raise" => last.outcome = last.send

C8_Witness ==
  /\ Called
  /\ nCalls = 2
  /\ nRequests = 2
  /\ last.op = "delete_issue"
  /\ Status = 500
  /\ last.outcome.exc = "YouTrackException"

(* C9, as stated: every operation but delete_issue and                     *)
(* delete_issue_comment sends the fields parameter of its return type, and *)
(* these two send none.                                                    *)
C9_FieldsExceptPureDelete ==
  Called =>
    IF last.op \in PureDeleteOps
      THEN "fields" \notin DOMAIN Request.params
      ELSE /\ "fields" \in DOMAIN Request.params
           /\ ReturnType(last.op) # "" =>
                Request.params["fields"] = model_to_field_names(ReturnType(last.op))

(* C9, amended: the operations that parse no entity (delete_issue,         *)
(* delete_issue_comment and add_issue_tag) send no fields parameter; every *)
(* other operation sends the fields parameter of the entity type it parses.*)
C9_FieldsExceptNoResultOps ==
  Called =>
    IF last.op \in PureDeleteOps \cup {"add_issue_tag"}
      THEN "fields" \notin DOMAIN Request.params
      ELSE /\ "fields" \in DOMAIN Request.params
           /\ ReturnType(last.op) # ""
           /\ Request.params["fields"] = model_to_field_names(ReturnType(last.op))

C9_Witness ==
  /\ Called
  /\ last.op = "create_comment_attachments"
  /\ "fields" \in DOMAIN Request.params
  /\ Request.params["fields"] = model_to_field_names("IssueAttachment")
  /\ ~IsNone(Request.files)

(* C10: the session's default headers stay what the constructor set, and   *)
(* every request carries Authorization: Bearer <token>; the Content-Type   *)
(* of a request with a body stays on that request.                         *)
C10_SessionHeadersFixed ==
  /\ session_headers = ("Authorization" :> Bearer)
  /\ Called => \A i \in 1..Len(last.sent) :
                 /\ "Authorization" \in DOMAIN last.sent[i].headers
                 /\ last.sent[i].headers["Authorization"] = Bearer

C10_Witness ==
  /\ Called
  /\ nCalls = 2
  /\ ~IsNone(Request.data)
  /\ "Content-Type" \in DOMAIN Request.headers
  /\ Request.headers["Authorization"] = "Bearer tok-B"
  /\ DOMAIN session_headers = {"Authorization"}
====
